---- MODULE Spec2Model ----
(***************************************************************************)
(* A model of the hyperlight call boundary:                                *)
(*   - MultiUseGuestCallContext (hyperlight_host/src/func/call_ctx.rs):    *)
(*     start / call / finish / finish_no_reset over one MultiUseSandbox,   *)
(*     specification Spec; map_region through the context, specification   *)
(*     SpecMap;                                                            *)
(*   - the guest-side registry, dispatcher and outbound host call          *)
(*     (hyperlight_guest_capi/src/dispatch.rs), specification SpecDispatch;*)
(*   - the multi-threaded hand-off of test_multi_call_multi_thread,        *)
(*     specifications SpecThreads and, with scheduling, SpecThreadsFair.   *)
(* The guest function driven through the context is AddToStatic: it adds   *)
(* its argument to a guest static and returns the new total.  The guest    *)
(* memory is therefore modelled by the value of that static.               *)
(***************************************************************************)
EXTENDS Integers, Sequences, FiniteSets, TLC

\* ------------------------------------------------------------------ bounds

\* Arguments passed to AddToStatic are drawn from 0..MaxArg.
MaxArg == 3
\* Calls are issued only while the guest static stays within 0..MaxTotal.
MaxTotal == 6
\* At most MaxCalls calls are logged per context (or per run of direct calls).
MaxCalls == 4
\* Sender threads of the hand-off (the test spawns 10).
NumSenders == 3

\* A guest function or the fallback, while it runs, calls back into the entry
\* points (registration, host call) at most MaxNested times.
MaxNested == 1

VARIABLES
    \* --- call context lifecycle (Spec)
    handles,     \* live handles through which the sandbox is reachable: subset of {"sbox","ctx"}
    mem,         \* guest memory: the value of the guest static
    snapshot,    \* the state the sandbox's restore_state() restores
    lastOp,      \* history: the last operation performed
    startMem,    \* history: mem when the current context (or run of direct calls) began
    startSnap,   \* history: snapshot when the current context began
    log,         \* history: <<arg, ret>> of the calls of the current context / run of direct
                 \* calls that the guest ran, ret the value the guest function returned
    callResult,  \* what the call just made handed to its caller ("none" after any
                 \* other operation): [code, value], value the Ok value, else 0
    logKind,     \* history: "ctx" or "direct", what log records
    kept,        \* history: mem at the last finish_no_reset or snapshot capture
    \* --- host memory mapped into the sandbox (SpecMap)
    regions,     \* the host memory regions mapped into the sandbox
    snapRegions, \* the mapped regions of the state restore_state() restores
    ptes,        \* the guest pages that have a guest page-table entry
    lastMap,     \* history: the last map_region or map_file_cow: the region asked for,
                 \* the regions before it, its result and the length it returned
    \* --- guest registry and dispatcher (SpecDispatch)
    registry,    \* REGISTERED_C_GUEST_FUNCTIONS: a set of definitions, at most one per name
    lastReg,     \* history: per name, the definition of the last registration made under it
    reRegistered,\* history: per name, whether a registration replaced a different definition
    run,         \* the dispatch in progress, its guest function or the fallback running:
                 \* the call, the fallback's behaviour, the definition the lookup found,
                 \* the outcome it will return, the entry points called meanwhile
    last,        \* history: the last dispatch that returned, if no entry point was called
                 \* from outside a dispatch since: the same fields as run
    hostCall,    \* history: the outbound host call made last since the last dispatch
                 \* began: the call, the host's outcome, what the caller got back
    \* --- multi-threaded hand-off (SpecThreads)
    spc,         \* per sender thread: "init", "sending" (blocked in send), "sent", "done",
                 \* "panicked"
    rpc,         \* receiver thread: "boot", "recv", "new_ctx", "calls", "done", "panicked"
    mpc,         \* main thread: "join_senders", "drop_snd", "join_recv", "done", "panicked"
    mnext,       \* main thread: the sender whose handle it joins next
    cur,         \* receiver: the batch in hand, [owner, next], owner = -1 when none
    tmem,        \* guest memory of the receiver's sandbox: bytes the guest has allocated
    tsnap,       \* the state that sandbox's restore_state() restores
    startLog,    \* history: <<sender, tmem>> at each new_call_context
    execLog      \* history: <<sender, index, ret>> of every call executed

varsCtx ==
    <<handles, mem, snapshot, lastOp, startMem, startSnap, log, callResult, logKind, kept>>

varsMap == <<regions, snapRegions, ptes, lastMap>>

varsDisp == <<registry, lastReg, reRegistered, run, last, hostCall>>

varsThr == <<spc, rpc, mpc, mnext, cur, tmem, tsnap, startLog, execLog>>

vars == <<varsCtx, varsMap, varsDisp, varsThr>>

\* What the operations of one component leave alone: the other components
\* (the operations of the call context say themselves what they do to the
\* mapped regions).
FrameCtx == UNCHANGED <<varsDisp, varsThr>>
FrameDisp == UNCHANGED <<varsCtx, varsMap, varsThr>>
FrameThr == UNCHANGED <<varsCtx, varsMap, varsDisp>>

\* ------------------------------------------------- sandbox (external code)

\* MultiUseSandbox::call_guest_function_by_name_no_reset running the guest's
\* AddToStatic(n) on memory m: the static becomes m + n and is returned.
CallNoReset(m, n) == [mem |-> m + n, ret |-> m + n]

\* MultiUseSandbox::restore_state: memory goes back to the sandbox's last snapshot.
RestoreState(snap) == snap

\* The guest functions a call names: one the guest has, one it has not.
FuncNames == {"AddToStatic", "NoSuchFunction"}

\* The return types a caller asks for; AddToStatic returns an Int.
OutputTypes == {"Int", "String"}

\* How the sandbox's call can fail although the function exists: not at all,
\* or the guest aborts before the function has changed anything.
SandboxFaults == {"none", "GuestAborted"}

\* MultiUseSandbox::call_guest_function_by_name_no_reset(func_name, .., n) on
\* memory m: a function the guest does not have is GuestFunctionNotFound, a
\* failing call gives its error, both with the memory as it was; otherwise
\* AddToStatic(n) runs and its Int is returned.
CallGuestFunctionByNameNoReset(m, func_name, n, fault) ==
    IF func_name # "AddToStatic"
      THEN [mem |-> m, kind |-> "Err", code |-> "GuestFunctionNotFound", value |-> 0]
      ELSE IF fault # "none"
             THEN [mem |-> m, kind |-> "Err", code |-> fault, value |-> 0]
             ELSE [mem |-> CallNoReset(m, n).mem, kind |-> "Ok", code |-> "Ok",
                   value |-> CallNoReset(m, n).ret]

\* Output::from_value on the Int the guest returned: an Int converts, any
\* other type asked for is ReturnValueConversionFailure.
FromValue(output, value) ==
    IF output = "Int"
      THEN [code |-> "Ok", value |-> value]
      ELSE [code |-> "ReturnValueConversionFailure", value |-> 0]

NoResult == [code |-> "none", value |-> 0]

\* Running sum of the first k arguments of a call log.
RECURSIVE SumArgs(_, _)
SumArgs(l, k) == IF k = 0 THEN 0 ELSE SumArgs(l, k - 1) + l[k][1]

\* Memory left by the calls of the current context.
CtxMem == IF Len(log) = 0 THEN startMem ELSE log[Len(log)][2]

\* ------------------------------------------------------ call_ctx.rs actions

\* ------------------------------------------- mapped regions (external code)

\* The page size of the host platform.
PageSize == 4096

\* A byte of host memory, told apart by its address.
HostByte(addr) == <<"host", addr>>

\* The region descriptors handed to map_region: guest base, host base, length
\* and kind; a base or a length off the page boundary among them.
RegionKinds == {"Heap", "Code"}
MemoryRegions ==
    [base : {2 * PageSize, 2 * PageSize + 1, 3 * PageSize}, host : {10 * PageSize},
     len : {PageSize, PageSize - 1}, region_type : RegionKinds]

NoRegion == [base |-> 0, host |-> 0, len |-> 0, region_type |-> "none"]

\* MultiUseSandbox::map_region: a base or a length that is not a multiple of
\* the page size is refused with InvalidRegionAlignment; otherwise the region
\* is mapped.  The kind plays no part.
SandboxMapRegion(regs, rgn) ==
    IF rgn.base % PageSize = 0 /\ rgn.len % PageSize = 0
      THEN [result |-> "Ok", regions |-> regs \cup {rgn}]
      ELSE [result |-> "InvalidRegionAlignment", regions |-> regs]

\* What the guest reads at a guest address: the host bytes the mapped regions
\* covering the address show there (none: the address is not mapped).
GuestRead(regs, addr) ==
    { HostByte(r.host + (addr - r.base)) :
        r \in { q \in regs : q.base <= addr /\ addr < q.base + q.len } }

\* The pages of the sandbox's own address space, the only ones with guest
\* page-table entries.
SandboxPages == {0, 1}

\* The files handed to map_file_cow: a path with no file behind it, a file
\* of two whole pages, a file shorter than a page.
Files == {"missing", "two_pages", "short"}
FileExists(fp) == fp # "missing"
FileSize(fp) == IF fp = "two_pages" THEN 2 * PageSize ELSE 100

\* Where the host maps a file it opens.
FileHost(fp) == IF fp = "two_pages" THEN 20 * PageSize ELSE 30 * PageSize

\* The guest addresses handed to map_file_cow.
GuestBases == {3 * PageSize, 2 * PageSize + 1}

DivCeil(a, b) == (a + b - 1) \div b

\* MultiUseSandbox::map_file_cow: a file that cannot be opened is an I/O
\* error; otherwise the file is mapped in the host, its length rounded up to
\* whole pages, and that host memory is mapped at guest_base as map_region
\* maps it; the length mapped is returned.
SandboxMapFileCow(regs, fp, guest_base) ==
    IF ~FileExists(fp)
      THEN [result |-> "IoError", regions |-> regs, rgn |-> NoRegion, ret |-> 0]
      ELSE LET size == DivCeil(FileSize(fp), PageSize) * PageSize
               rgn == [base |-> guest_base, host |-> FileHost(fp), len |-> size,
                       region_type |-> "Heap"]
               r == SandboxMapRegion(regs, rgn)
           IN  [result |-> r.result, regions |-> r.regions, rgn |-> rgn,
                ret |-> IF r.result = "Ok" THEN size ELSE 0]

NoMap == [rgn |-> NoRegion, before |-> {}, result |-> "none", ret |-> 0]

InitMap ==
    /\ regions = {}
    /\ snapRegions = {}
    /\ ptes = SandboxPages
    /\ lastMap = NoMap

InitCtx ==
    /\ handles = {"sbox"}
    /\ mem = 0
    /\ snapshot = 0
    /\ lastOp = "new"
    /\ startMem = 0
    /\ startSnap = 0
    /\ log = <<>>
    /\ callResult = NoResult
    /\ logKind = "ctx"
    /\ kept = 0

\* A variant of Start that leaves the caller's Sandbox handle usable.
StartKeepsHandle ==
    /\ "sbox" \in handles
    /\ handles' = handles \cup {"ctx"}
    /\ startMem' = mem
    /\ startSnap' = snapshot
    /\ log' = <<>>
    /\ logKind' = "ctx"
    /\ lastOp' = "start"
    /\ UNCHANGED <<mem, snapshot, kept>>
    /\ UNCHANGED varsMap
    /\ callResult' = NoResult
    /\ FrameCtx

\* MultiUseGuestCallContext::start(sbox): moves the sandbox into a new context.
\* Nothing is captured: the body is `Self { sbox }`.
Start ==
    /\ "sbox" \in handles
    /\ handles' = (handles \ {"sbox"}) \cup {"ctx"}
    /\ startMem' = mem
    /\ startSnap' = snapshot
    /\ log' = <<>>
    /\ logKind' = "ctx"
    /\ lastOp' = "start"
    /\ UNCHANGED <<mem, snapshot, kept>>
    /\ UNCHANGED varsMap
    /\ callResult' = NoResult
    /\ FrameCtx

\* <MultiUseGuestCallContext as Callable>::call::<output>(func_name, n) on
\* memory base: the sandbox's call, `?` on its result, then from_value on the
\* value.  The context stays whatever the outcome; the guest memory is what
\* the sandbox's call left, also when the value does not convert.
CallOn(base, func_name, output, n, fault) ==
    LET ret == CallGuestFunctionByNameNoReset(base, func_name, n, fault)
    IN  /\ "ctx" \in handles
        /\ ret.mem <= MaxTotal
        /\ IF ret.kind = "Err"
             THEN /\ callResult' = [code |-> ret.code, value |-> 0]
                  /\ UNCHANGED log
             ELSE /\ Len(log) < MaxCalls
                  /\ callResult' = FromValue(output, ret.value)
                  /\ log' = Append(log, <<n, ret.value>>)
        /\ mem' = ret.mem
        /\ lastOp' = "call"
        /\ UNCHANGED <<handles, snapshot, startMem, startSnap, logKind, kept>>
        /\ UNCHANGED varsMap
        /\ FrameCtx

\* A variant of CtxCall that resets the guest state before the call.
CtxCallResets(func_name, output, n, fault) ==
    CallOn(RestoreState(snapshot), func_name, output, n, fault)

\* <MultiUseGuestCallContext as Callable>::call: the call runs on the memory
\* the calls before it left.
CtxCall(func_name, output, n, fault) ==
    CallOn(mem, func_name, output, n, fault)

\* A variant of Finish that hands the sandbox back without restoring it.
FinishSkipsRestore ==
    /\ "ctx" \in handles
    /\ handles' = (handles \ {"ctx"}) \cup {"sbox"}
    /\ lastOp' = "finish"
    /\ UNCHANGED <<mem, snapshot, startMem, startSnap, log, logKind, kept>>
    /\ UNCHANGED varsMap
    /\ callResult' = NoResult
    /\ FrameCtx

\* MultiUseGuestCallContext::finish, restore_state() succeeding.
Finish ==
    /\ "ctx" \in handles
    /\ mem' = RestoreState(snapshot)
    /\ handles' = (handles \ {"ctx"}) \cup {"sbox"}
    /\ lastOp' = "finish"
    /\ UNCHANGED <<snapshot, startMem, startSnap, log, logKind, kept>>
    /\ regions' = RestoreState(snapRegions)
    /\ UNCHANGED <<snapRegions, ptes, lastMap>>
    /\ callResult' = NoResult
    /\ FrameCtx

\* A variant of the failing finish that hands the sandbox back with the error.
FinishErrReturnsSandbox ==
    /\ "ctx" \in handles
    /\ handles' = (handles \ {"ctx"}) \cup {"sbox"}
    /\ lastOp' = "finish_err"
    /\ UNCHANGED <<mem, snapshot, startMem, startSnap, log, logKind, kept>>
    /\ UNCHANGED varsMap
    /\ callResult' = NoResult
    /\ FrameCtx

\* MultiUseGuestCallContext::finish, restore_state() failing: `?` returns the
\* error and the context, with the sandbox in it, is dropped.
FinishErr ==
    /\ "ctx" \in handles
    /\ handles' = handles \ {"ctx"}
    /\ lastOp' = "finish_err"
    /\ UNCHANGED <<mem, snapshot, startMem, startSnap, log, logKind, kept>>
    /\ regions' = {}
    /\ UNCHANGED <<snapRegions, ptes, lastMap>>
    /\ callResult' = NoResult
    /\ FrameCtx

\* A variant of FinishNoReset that restores the state like finish().
FinishNoResetRestores ==
    /\ "ctx" \in handles
    /\ mem' = RestoreState(snapshot)
    /\ handles' = (handles \ {"ctx"}) \cup {"sbox"}
    /\ kept' = mem
    /\ lastOp' = "finish_no_reset"
    /\ UNCHANGED <<snapshot, startMem, startSnap, log, logKind>>
    /\ regions' = RestoreState(snapRegions)
    /\ UNCHANGED <<snapRegions, ptes, lastMap>>
    /\ callResult' = NoResult
    /\ FrameCtx

\* MultiUseGuestCallContext::finish_no_reset: the body is `self.sbox`.
FinishNoReset ==
    /\ "ctx" \in handles
    /\ handles' = (handles \ {"ctx"}) \cup {"sbox"}
    /\ kept' = mem
    /\ lastOp' = "finish_no_reset"
    /\ UNCHANGED <<mem, snapshot, startMem, startSnap, log, logKind>>
    /\ UNCHANGED varsMap
    /\ callResult' = NoResult
    /\ FrameCtx

\* A variant of the drop that resets the guest like finish() before the
\* sandbox goes.
DropCtxRestores ==
    /\ "ctx" \in handles
    /\ mem' = RestoreState(snapshot)
    /\ handles' = handles \ {"ctx"}
    /\ lastOp' = "drop"
    /\ UNCHANGED <<snapshot, startMem, startSnap, log, logKind, kept>>
    /\ regions' = {}
    /\ UNCHANGED <<snapRegions, ptes, lastMap>>
    /\ callResult' = NoResult
    /\ FrameCtx

\* The context goes out of scope: the sandbox it owns is dropped with it.
DropCtx ==
    /\ "ctx" \in handles
    /\ handles' = handles \ {"ctx"}
    /\ lastOp' = "drop"
    /\ UNCHANGED <<mem, snapshot, startMem, startSnap, log, logKind, kept>>
    /\ regions' = {}
    /\ UNCHANGED <<snapRegions, ptes, lastMap>>
    /\ callResult' = NoResult
    /\ FrameCtx

\* A variant of DirectCall that does not reset the state first: the call runs
\* on the memory as it is.
DirectCallKeepsState(n) ==
    /\ "sbox" \in handles
    /\ mem + n <= MaxTotal
    /\ IF lastOp = "direct" /\ logKind = "direct"
         THEN /\ Len(log) < MaxCalls
              /\ log' = Append(log, <<n, CallNoReset(mem, n).ret>>)
              /\ UNCHANGED startMem
         ELSE /\ log' = <<(<<n, CallNoReset(mem, n).ret>>)>>
              /\ startMem' = mem
    /\ mem' = CallNoReset(mem, n).mem
    /\ logKind' = "direct"
    /\ lastOp' = "direct"
    /\ UNCHANGED <<handles, snapshot, startSnap, kept>>
    /\ UNCHANGED varsMap
    /\ callResult' = [code |-> "Ok", value |-> CallNoReset(mem, n).ret]
    /\ FrameCtx

\* MultiUseSandbox::call_guest_function_by_name("AddToStatic", n), with no
\* context open: the state is reset first (memory and mapped regions go back
\* to the snapshot), then the call runs on it and its effect stays.
DirectCall(n) ==
    /\ "sbox" \in handles
    /\ RestoreState(snapshot) + n <= MaxTotal
    /\ IF lastOp = "direct" /\ logKind = "direct"
         THEN /\ Len(log) < MaxCalls
              /\ log' = Append(log, <<n, CallNoReset(RestoreState(snapshot), n).ret>>)
              /\ UNCHANGED startMem
         ELSE /\ log' = <<(<<n, CallNoReset(RestoreState(snapshot), n).ret>>)>>
              /\ startMem' = mem
    /\ mem' = CallNoReset(RestoreState(snapshot), n).mem
    /\ logKind' = "direct"
    /\ lastOp' = "direct"
    /\ UNCHANGED <<handles, snapshot, startSnap, kept>>
    /\ regions' = RestoreState(snapRegions)
    /\ UNCHANGED <<snapRegions, ptes, lastMap>>
    /\ callResult' = [code |-> "Ok", value |-> CallNoReset(RestoreState(snapshot), n).ret]
    /\ FrameCtx

\* The owner of the sandbox captures its current memory as the snapshot (the
\* "captured and stored in the Sandboxes state stack" of finish_no_reset's doc).
PushState ==
    /\ "sbox" \in handles
    /\ snapshot' = mem
    /\ kept' = mem
    /\ lastOp' = "push_state"
    /\ UNCHANGED <<handles, mem, startMem, startSnap, log, logKind>>
    /\ snapRegions' = regions
    /\ UNCHANGED <<regions, ptes, lastMap>>
    /\ callResult' = NoResult
    /\ FrameCtx

\* A variant of map_region that keeps the mapping although the sandbox
\* refused it.
MapRegionKeepsRefused(rgn) ==
    LET r == SandboxMapRegion(regions, rgn)
    IN  /\ "ctx" \in handles
        /\ regions' = regions \cup {rgn}
        /\ lastMap' = [rgn |-> rgn, before |-> regions, result |-> r.result, ret |-> 0]
        /\ lastOp' = "map_region"
        /\ UNCHANGED <<handles, mem, snapshot, startMem, startSnap, log, logKind, kept>>
        /\ UNCHANGED <<snapRegions, ptes>>
        /\ callResult' = NoResult
        /\ FrameCtx

\* A variant of map_region that gives the pages of a Code region guest
\* page-table entries.
MapRegionHonoursKind(rgn) ==
    LET r == SandboxMapRegion(regions, rgn)
    IN  /\ "ctx" \in handles
        /\ regions' = r.regions
        /\ ptes' = IF r.result = "Ok" /\ rgn.region_type = "Code"
                     THEN ptes \cup {rgn.base \div PageSize}
                     ELSE ptes
        /\ lastMap' = [rgn |-> rgn, before |-> regions, result |-> r.result, ret |-> 0]
        /\ lastOp' = "map_region"
        /\ UNCHANGED <<handles, mem, snapshot, startMem, startSnap, log, logKind, kept>>
        /\ UNCHANGED snapRegions
        /\ callResult' = NoResult
        /\ FrameCtx

\* MultiUseGuestCallContext::map_region: the body is self.sbox.map_region(rgn).
MapRegion(rgn) ==
    LET r == SandboxMapRegion(regions, rgn)
    IN  /\ "ctx" \in handles
        /\ regions' = r.regions
        /\ lastMap' = [rgn |-> rgn, before |-> regions, result |-> r.result, ret |-> 0]
        /\ lastOp' = "map_region"
        /\ UNCHANGED <<handles, mem, snapshot, startMem, startSnap, log, logKind, kept>>
        /\ UNCHANGED <<snapRegions, ptes>>
        /\ callResult' = NoResult
        /\ FrameCtx

\* MultiUseGuestCallContext::map_file_cow: the body is
\* self.sbox.map_file_cow(fp, guest_base).
MapFileCow(fp, guest_base) ==
    LET r == SandboxMapFileCow(regions, fp, guest_base)
    IN  /\ "ctx" \in handles
        /\ regions' = r.regions
        /\ lastMap' = [rgn |-> r.rgn, before |-> regions, result |-> r.result,
                       ret |-> r.ret]
        /\ lastOp' = "map_file_cow"
        /\ UNCHANGED <<handles, mem, snapshot, startMem, startSnap, log, logKind, kept>>
        /\ UNCHANGED <<snapRegions, ptes>>
        /\ callResult' = NoResult
        /\ FrameCtx

\* The operations on a context and on the sandbox when host regions are mapped.
NextMap ==
    \/ Start
    \/ \E rgn \in MemoryRegions : MapRegion(rgn)
    \/ \E fp \in Files, guest_base \in GuestBases : MapFileCow(fp, guest_base)
    \/ Finish
    \/ FinishErr
    \/ FinishNoReset
    \/ DropCtx
    \/ PushState

NextCtx ==
    \/ Start
    \/ \E func_name \in FuncNames, output \in OutputTypes, n \in 0..MaxArg,
          fault \in SandboxFaults : CtxCall(func_name, output, n, fault)
    \/ Finish
    \/ FinishErr
    \/ FinishNoReset
    \/ DropCtx
    \/ \E n \in 0..MaxArg : DirectCall(n)
    \/ PushState


\* ------------------------------------------------ dispatch.rs: the registry

\* Function names are sequences of bytes.  "xFF" and "xFE" are bytes that are
\* not valid UTF-8, "NUL" is a zero byte inside a Rust string.
CNames == { <<"f">>, <<"g", "xFF">>, <<"g", "xFE">> }
InvalidUtf8 == {"xFF", "xFE"}

\* CStr::to_string_lossy: every invalid byte becomes U+FFFD.
ToStringLossy(c) == [i \in DOMAIN c |-> IF c[i] \in InvalidUtf8 THEN "uFFFD" ELSE c[i]]

RegNames == { ToStringLossy(c) : c \in CNames }

ParamTypes == {"Int", "String"}
ReturnTypes == {"Int"}
FuncPtrs == {1, 2}
\* The arrays params_type may point to.
ParamArrays == { <<"Int", "String">> }

\* slice::from_raw_parts(params_type, param_no).to_vec()
SliceToVec(arr, n) == SubSeq(arr, 1, n)

\* GuestFunctionDefinition::new
NewDefinition(name, params, ret, ptr) ==
    [function_name |-> name, parameter_types |-> params,
     return_type |-> ret, function_pointer |-> ptr]

\* No definition (Option::None of a registry lookup).
NoDef == NewDefinition(<<>>, <<>>, "none", 0)

\* A variant of Register that keeps the entry already registered under a name.
RegisterFirstWins(reg, def) ==
    IF \E d \in reg : d.function_name = def.function_name THEN reg ELSE reg \cup {def}

\* GuestFunctionRegister::register: insert, replacing the entry of the same name.
Register(reg, def) ==
    { d \in reg : d.function_name # def.function_name } \cup {def}

\* GuestFunctionRegister::get
Get(reg, name) ==
    IF \E d \in reg : d.function_name = name
      THEN CHOOSE d \in reg : d.function_name = name
      ELSE NoDef

\* ---------------------------------------------- dispatch.rs: the dispatcher

\* Parameter values of a call: an Int, a String, a String holding a zero byte.
ParamValues == {"Int", "String", "StringNul"}

\* ParameterValue -> ParameterType (`p.into()`)
TypeOf(v) == IF v = "Int" THEN "Int" ELSE "String"

\* The parameter lists of the incoming calls: matching a registered signature,
\* or differing from it in count, in order or in type, with and without a
\* string that holds a zero byte.
ParamLists ==
    { <<>>, <<"Int">>, <<"String">>, <<"StringNul">>, <<"Int", "String">>,
      <<"String", "Int">>, <<"Int", "StringNul">>, <<"Int", "String", "Int">> }

\* function_call.parameters is an Option<Vec<ParameterValue>>: <<>> is None,
\* <<v>> is Some(v).
OptParams == { <<>> } \cup { <<v>> : v \in ParamLists }

\* Option::iter().flatten(): the values of the vector, none for None.
Flatten(opt) == IF opt = <<>> THEN <<>> ELSE opt[1]

CallNames == { <<"f">>, <<"g", "uFFFD">>, <<"n", "NUL">> }

FunctionCalls ==
    [function_name : CallNames, parameters : OptParams, expected_return_type : ReturnTypes]

NoCall == [function_name |-> <<>>, parameters |-> <<>>, expected_return_type |-> "none"]

\* What c_guest_dispatch_function does with a name it is handed: return null,
\* or resolve it and return a result.
Fallbacks == {"null", "resolves"}

Ok(v) == [kind |-> "Ok", code |-> "NoError", payload |-> v]
Err(code, msg) == [kind |-> "Err", code |-> code, payload |-> msg]

\* A variant of the parameter types of a call in which an absent parameter
\* list counts as one parameter.
FunctionCallParameterTypesAbsentIsOne(fc) ==
    IF fc.parameters = <<>>
      THEN <<"Int">>
      ELSE [i \in DOMAIN Flatten(fc.parameters) |-> TypeOf(Flatten(fc.parameters)[i])]

\* The parameter types of a call: parameters.iter().flatten().map(|p| p.into())
FunctionCallParameterTypes(fc) ==
    [i \in DOMAIN Flatten(fc.parameters) |-> TypeOf(Flatten(fc.parameters)[i])]

\* GuestFunctionDefinition::verify_parameters: the types must be the
\* registered ones, same count, same order.
VerifyParameters(def, types) ==
    IF def.parameter_types = types THEN "Ok" ELSE "ParameterTypeMismatch"

\* FfiFunctionCall::from_function_call: the name and the string parameters
\* become C strings, which a zero byte inside them makes impossible; an absent
\* parameter list becomes an empty array.
Convertible(fc) ==
    /\ \A i \in DOMAIN fc.function_name : fc.function_name[i] # "NUL"
    /\ \A i \in DOMAIN Flatten(fc.parameters) : Flatten(fc.parameters)[i] # "StringNul"

FromFunctionCall(fc) ==
    [function_name |-> fc.function_name, parameters |-> Flatten(fc.parameters),
     return_type |-> fc.expected_return_type]

\* The bytes the registered function at address ptr returns for a call.
GuestFunc(ptr, ffi) == <<"ret", ptr, ffi.function_name, ffi.parameters>>

\* The bytes the fallback returns for a call it resolves.
FallbackResult(ffi) == <<"fallback", ffi.function_name, ffi.parameters>>

\* A variant of RegisteredBranch that invokes the function a second time and
\* returns the bytes of the second invocation.
RegisteredBranchInvokesTwice(def, fc) ==
    LET function_call_parameter_types == FunctionCallParameterTypes(fc)
        v == VerifyParameters(def, function_call_parameter_types)
        ptr == def.function_pointer
    IN  IF v # "Ok"
          THEN [result |-> Err(v, <<>>), events |-> << <<"verify">> >>]
        ELSE IF ~Convertible(fc)
          THEN [result |-> Err("CallEnvelopeDecodeError", <<>>),
                events |-> << <<"verify">>, <<"convert_err">> >>]
        ELSE [result |-> Ok(GuestFunc(ptr, FromFunctionCall(fc))),
              events |-> << <<"verify">>, <<"convert_ok">>, <<"invoke", ptr>>,
                            <<"invoke", ptr>> >>]

\* A variant of RegisteredBranch that invokes the function before it looks at
\* the outcome of the type verification.
RegisteredBranchInvokesFirst(def, fc) ==
    LET function_call_parameter_types == FunctionCallParameterTypes(fc)
        v == VerifyParameters(def, function_call_parameter_types)
        ptr == def.function_pointer
    IN  IF ~Convertible(fc)
          THEN [result |-> Err("CallEnvelopeDecodeError", <<>>),
                events |-> << <<"convert_err">> >>]
        ELSE IF v # "Ok"
          THEN [result |-> Err(v, <<>>),
                events |-> << <<"convert_ok">>, <<"invoke", ptr>>, <<"verify">> >>]
        ELSE [result |-> Ok(GuestFunc(ptr, FromFunctionCall(fc))),
              events |-> << <<"convert_ok">>, <<"invoke", ptr>>, <<"verify">> >>]

\* guest_dispatch_function, the name is registered: verify the parameter
\* types, convert the call, invoke the function.  Each `?` returns the error.
RegisteredBranch(def, fc) ==
    LET function_call_parameter_types == FunctionCallParameterTypes(fc)
        v == VerifyParameters(def, function_call_parameter_types)
        ptr == def.function_pointer
    IN  IF v # "Ok"
          THEN [result |-> Err(v, <<>>), events |-> << <<"verify">> >>]
        ELSE IF ~Convertible(fc)
          THEN [result |-> Err("CallEnvelopeDecodeError", <<>>),
                events |-> << <<"verify">>, <<"convert_err">> >>]
        ELSE [result |-> Ok(GuestFunc(ptr, FromFunctionCall(fc))),
              events |-> << <<"verify">>, <<"convert_ok">>, <<"invoke", ptr>> >>]

\* A variant of FallbackBranch that reports a fixed message.
FallbackBranchFixedMessage(fc, fb) ==
    IF ~Convertible(fc)
      THEN [result |-> Err("CallEnvelopeDecodeError", <<>>),
            events |-> << <<"convert_err">> >>]
    ELSE IF fb = "null"
      THEN [result |-> Err("GuestFunctionNotFound", <<"function", "not", "found">>),
            events |-> << <<"convert_ok">>, <<"fallback">> >>]
    ELSE [result |-> Ok(FallbackResult(FromFunctionCall(fc))),
          events |-> << <<"convert_ok">>, <<"fallback">> >>]

\* A variant of FallbackBranch that hands the call to the fallback although
\* its conversion failed.
FallbackBranchIgnoresDecodeError(fc, fb) ==
    IF ~Convertible(fc)
      THEN [result |-> Err("CallEnvelopeDecodeError", <<>>),
            events |-> << <<"convert_err">>, <<"fallback">> >>]
    ELSE IF fb = "null"
      THEN [result |-> Err("GuestFunctionNotFound", fc.function_name),
            events |-> << <<"convert_ok">>, <<"fallback">> >>]
    ELSE [result |-> Ok(FallbackResult(FromFunctionCall(fc))),
          events |-> << <<"convert_ok">>, <<"fallback">> >>]

\* guest_dispatch_function, the name is not registered: convert the call and
\* hand it to c_guest_dispatch_function; null means the function is not found.
FallbackBranch(fc, fb) ==
    LET function_name == fc.function_name IN
    IF ~Convertible(fc)
      THEN [result |-> Err("CallEnvelopeDecodeError", <<>>),
            events |-> << <<"convert_err">> >>]
    ELSE IF fb = "null"
      THEN [result |-> Err("GuestFunctionNotFound", function_name),
            events |-> << <<"convert_ok">>, <<"fallback">> >>]
    ELSE [result |-> Ok(FallbackResult(FromFunctionCall(fc))),
          events |-> << <<"convert_ok">>, <<"fallback">> >>]

\* A variant of guest_dispatch_function that hands the call to the fallback
\* when the registered function's parameter types do not match.
GuestDispatchFallsThrough(reg, fc, fb) ==
    LET registered_func == Get(reg, fc.function_name)
        r == RegisteredBranch(registered_func, fc)
        f == FallbackBranch(fc, fb)
        b == IF registered_func = NoDef
               THEN f
             ELSE IF r.result.code = "ParameterTypeMismatch"
               THEN [result |-> f.result, events |-> r.events \o f.events]
             ELSE r
    IN  [result |-> b.result, events |-> << <<"lookup">> >> \o b.events]

\* guest_dispatch_function: the registry lookup comes first and chooses the branch.
GuestDispatchFunction(reg, fc, fb) ==
    LET registered_func == Get(reg, fc.function_name)
        b == IF registered_func # NoDef
               THEN RegisteredBranch(registered_func, fc)
               ELSE FallbackBranch(fc, fb)
    IN  [result |-> b.result, events |-> << <<"lookup">> >> \o b.events]

\* ------------------------------------------------------ dispatch.rs actions

\* No dispatch.
NoDispatch ==
    [call |-> NoCall, fb |-> "null", def |-> NoDef,
     out |-> [result |-> Ok(<<>>), events |-> <<>>], nested |-> <<>>]

\* A dispatch is in progress: guest_dispatch_function has called the
\* registered function or the fallback, which has not returned yet.
Running == run # NoDispatch

\* Whether a dispatch with this outcome called the registered function or the
\* fallback.
EntersForeignCode(out) ==
    \E i \in DOMAIN out.events : out.events[i][1] \in {"invoke", "fallback"}

\* The calls the guest's C code makes to the host.
HostCallNames == { <<"h">>, <<"k">> }
FfiFunctionCalls ==
    [function_name : HostCallNames, parameters : { <<>>, <<"Int">> }, return_type : ReturnTypes]

\* What call_host_function_without_returning_result comes back with.
HostOutcomes == {"Ok", "Err"}

\* No host call made since the last inbound operation.
NoHostCall ==
    [call |-> NoCall, host |-> "none", returned |-> "none", panic |-> <<>>]

\* A panic ends the guest: no entry point runs after it.
GuestPanicked == hostCall.panic # <<>>

InitDisp ==
    /\ registry = {}
    /\ lastReg = [n \in RegNames |-> NoDef]
    /\ reRegistered = [n \in RegNames |-> FALSE]
    /\ run = NoDispatch
    /\ last = NoDispatch
    /\ hostCall = NoHostCall

\* A variant of the registration entry point in which the first registration
\* made under a name wins.
HlRegisterFirstWins(function_name, func_ptr, param_no, params_type, return_type) ==
    LET func_name == ToStringLossy(function_name)
        func_params == SliceToVec(params_type, param_no)
        func_def == NewDefinition(func_name, func_params, return_type, func_ptr)
    IN  /\ ~GuestPanicked
        /\ registry' = RegisterFirstWins(registry, func_def)
        /\ lastReg' = [lastReg EXCEPT ![func_name] = func_def]
        /\ reRegistered' = [reRegistered EXCEPT ![func_name] =
                               @ \/ (lastReg[func_name] \notin {NoDef, func_def})]
        /\ IF Running
             THEN /\ Len(run.nested) < MaxNested
                  /\ run' = [run EXCEPT !.nested = Append(@, "register")]
                  /\ UNCHANGED <<last, hostCall>>
             ELSE /\ last' = NoDispatch
                  /\ hostCall' = NoHostCall
                  /\ UNCHANGED run
        /\ FrameDisp

\* hl_register_function_definition, called by the guest's C code: before any
\* dispatch, between dispatches, or from a guest function or the fallback
\* while a dispatch is in progress.
HlRegisterFunctionDefinition(function_name, func_ptr, param_no, params_type, return_type) ==
    LET func_name == ToStringLossy(function_name)
        func_params == SliceToVec(params_type, param_no)
        func_def == NewDefinition(func_name, func_params, return_type, func_ptr)
    IN  /\ ~GuestPanicked
        /\ registry' = Register(registry, func_def)
        /\ lastReg' = [lastReg EXCEPT ![func_name] = func_def]
        /\ reRegistered' = [reRegistered EXCEPT ![func_name] =
                               @ \/ (lastReg[func_name] \notin {NoDef, func_def})]
        /\ IF Running
             THEN /\ Len(run.nested) < MaxNested
                  /\ run' = [run EXCEPT !.nested = Append(@, "register")]
                  /\ UNCHANGED <<last, hostCall>>
             ELSE /\ last' = NoDispatch
                  /\ hostCall' = NoHostCall
                  /\ UNCHANGED run
        /\ FrameDisp

\* guest_dispatch_function is called with fc, the fallback behaving as fb: it
\* runs up to the call of the registered function or of the fallback, where
\* control passes to the guest's C code, or, if it fails before, to its return.
Dispatch(fc, fb) ==
    LET d == [call |-> fc, fb |-> fb, def |-> Get(registry, fc.function_name),
              out |-> GuestDispatchFunction(registry, fc, fb), nested |-> <<>>]
    IN  /\ ~GuestPanicked
        /\ ~Running
        /\ IF EntersForeignCode(d.out)
             THEN /\ run' = d
                  /\ last' = NoDispatch
             ELSE /\ run' = NoDispatch
                  /\ last' = d
        /\ hostCall' = NoHostCall
        /\ UNCHANGED <<registry, lastReg, reRegistered>>
        /\ FrameDisp

\* The registered function or the fallback returns and guest_dispatch_function
\* returns its result.
DispatchReturn ==
    /\ ~GuestPanicked
    /\ Running
    /\ last' = run
    /\ run' = NoDispatch
    /\ UNCHANGED <<registry, lastReg, reRegistered, hostCall>>
    /\ FrameDisp

\* A variant of hl_call_host_function that drops the outcome of the host call
\* and returns.
HlCallHostFunctionSwallows(function_call, outcome) ==
    LET parameters == function_call.parameters
        func_name == function_call.function_name
        return_type == function_call.return_type
        sent == [function_name |-> func_name, parameters |-> <<parameters>>,
                 expected_return_type |-> return_type]
    IN  /\ ~GuestPanicked
        /\ hostCall' = [call |-> sent, host |-> outcome, returned |-> "unit", panic |-> <<>>]
        /\ IF Running
             THEN /\ Len(run.nested) < MaxNested
                  /\ run' = [run EXCEPT !.nested = Append(@, "host_call")]
                  /\ UNCHANGED last
             ELSE /\ last' = NoDispatch
                  /\ UNCHANGED run
        /\ UNCHANGED <<registry, lastReg, reRegistered>>
        /\ FrameDisp

\* hl_call_host_function: copy the name, the parameters and the return type
\* out of the C structure, make the host call with Some(parameters), and
\* `expect` its outcome: Ok is dropped and the function returns nothing, Err
\* panics with the message.  The function has no return value.  The guest's C
\* code calls it from a guest function or the fallback while a dispatch is in
\* progress, or outside any dispatch.
HlCallHostFunction(function_call, outcome) ==
    LET parameters == function_call.parameters
        func_name == function_call.function_name
        return_type == function_call.return_type
        sent == [function_name |-> func_name, parameters |-> <<parameters>>,
                 expected_return_type |-> return_type]
    IN  /\ ~GuestPanicked
        /\ hostCall' =
             IF outcome = "Ok"
               THEN [call |-> sent, host |-> outcome, returned |-> "unit", panic |-> <<>>]
               ELSE [call |-> sent, host |-> outcome, returned |-> "none",
                     panic |-> <<"Failed to call host function">>]
        /\ IF Running
             THEN /\ Len(run.nested) < MaxNested
                  /\ run' = [run EXCEPT !.nested = Append(@, "host_call")]
                  /\ UNCHANGED last
             ELSE /\ last' = NoDispatch
                  /\ UNCHANGED run
        /\ UNCHANGED <<registry, lastReg, reRegistered>>
        /\ FrameDisp

NextDisp ==
    \/ \E c \in CNames, p \in FuncPtrs, a \in ParamArrays, r \in ReturnTypes :
         \E n \in 0..Len(a) : HlRegisterFunctionDefinition(c, p, n, a, r)
    \/ \E fc \in FunctionCalls, fb \in Fallbacks : Dispatch(fc, fb)
    \/ DispatchReturn
    \/ \E fc \in FfiFunctionCalls, o \in HostOutcomes : HlCallHostFunction(fc, o)

\* -------------------------------- call_ctx.rs: test_multi_call_multi_thread

Senders == 0..(NumSenders - 1)

\* The batch sender i builds: Echo("Hello i"), then CallMalloc(i + 2).
Batch(i) == << [fn |-> "Echo", arg |-> i], [fn |-> "CallMalloc", arg |-> i + 2] >>

\* The guest functions of the batch run on memory m: Echo returns its message
\* and allocates nothing that outlives it, CallMalloc allocates `arg` bytes
\* and returns `arg`.
GuestCall(m, c) ==
    IF c.fn = "Echo" THEN [mem |-> m, ret |-> c.arg]
                     ELSE [mem |-> m + c.arg, ret |-> c.arg]

NoBatch == [owner |-> -1, next |-> 0]

InitThr ==
    /\ spc = [i \in Senders |-> "init"]
    /\ rpc = "boot"
    /\ mpc = "join_senders"
    /\ mnext = 0
    /\ cur = NoBatch
    /\ tmem = 0
    /\ tsnap = 0
    /\ startLog = <<>>
    /\ execLog = <<>>

\* Receiver: new_uninit().unwrap().evolve(Noop::default()).unwrap()
RecvBoot ==
    /\ rpc = "boot"
    /\ rpc' = "recv"
    /\ tmem' = 0
    /\ tsnap' = 0
    /\ UNCHANGED <<spc, mpc, mnext, cur, startLog, execLog>>
    /\ FrameThr

\* Receiver: new_uninit() or evolve() fails and its unwrap panics: the thread
\* ends before it takes a batch, and its Receiver is dropped.
RecvBootPanics ==
    /\ rpc = "boot"
    /\ rpc' = "panicked"
    /\ UNCHANGED <<spc, mpc, mnext, cur, tmem, tsnap, startLog, execLog>>
    /\ FrameThr

\* Sender i: the batch is built and sender.send(calls) blocks until the
\* receiver takes it (the channel has capacity 0).
SenderSend(i) ==
    /\ spc[i] = "init"
    /\ spc' = [spc EXCEPT ![i] = "sending"]
    /\ UNCHANGED <<rpc, mpc, mnext, cur, tmem, tsnap, startLog, execLog>>
    /\ FrameThr

\* The rendezvous: recv.recv() returns Ok(calls) with the batch of a sender
\* blocked in send, whose send returns.
RecvBatch(i) ==
    /\ rpc = "recv"
    /\ spc[i] = "sending"
    /\ spc' = [spc EXCEPT ![i] = "sent"]
    /\ cur' = [owner |-> i, next |-> 1]
    /\ rpc' = "new_ctx"
    /\ UNCHANGED <<mpc, mnext, tmem, tsnap, startLog, execLog>>
    /\ FrameThr

\* Sender i: the Receiver is gone, send returns Err and its unwrap panics.
SenderSendPanics(i) ==
    /\ spc[i] = "sending"
    /\ rpc = "panicked"
    /\ spc' = [spc EXCEPT ![i] = "panicked"]
    /\ UNCHANGED <<rpc, mpc, mnext, cur, tmem, tsnap, startLog, execLog>>
    /\ FrameThr

\* Sender i: send returned, the thread ends and drops its Sender clone.
SenderExit(i) ==
    /\ spc[i] = "sent"
    /\ spc' = [spc EXCEPT ![i] = "done"]
    /\ UNCHANGED <<rpc, mpc, mnext, cur, tmem, tsnap, startLog, execLog>>
    /\ FrameThr

\* Receiver: let mut ctx = sbox.new_call_context()
RecvNewContext ==
    /\ rpc = "new_ctx"
    /\ rpc' = "calls"
    /\ startLog' = Append(startLog, <<cur.owner, tmem>>)
    /\ UNCHANGED <<spc, mpc, mnext, cur, tmem, tsnap, execLog>>
    /\ FrameThr

\* Receiver: call.call(&mut ctx) for the next call of the batch.
RecvCall ==
    /\ rpc = "calls"
    /\ cur.next <= Len(Batch(cur.owner))
    /\ LET r == GuestCall(tmem, Batch(cur.owner)[cur.next]) IN
        /\ tmem' = r.mem
        /\ execLog' = Append(execLog, <<cur.owner, cur.next, r.ret>>)
    /\ cur' = [cur EXCEPT !.next = @ + 1]
    /\ UNCHANGED <<spc, rpc, mpc, mnext, tsnap, startLog>>
    /\ FrameThr

\* Receiver: the next call of the batch fails (the guest call returns Err or
\* its result is not the expected one) and the unwrap or assert_eq! in the
\* closure panics: the thread ends, the context and the Receiver are dropped.
RecvCallPanics ==
    /\ rpc = "calls"
    /\ cur.next <= Len(Batch(cur.owner))
    /\ rpc' = "panicked"
    /\ UNCHANGED <<spc, mpc, mnext, cur, tmem, tsnap, startLog, execLog>>
    /\ FrameThr

\* Receiver: the batch is exhausted, ctx.finish() returns Err and its unwrap
\* panics: the thread ends, the Receiver is dropped.
RecvFinishPanics ==
    /\ rpc = "calls"
    /\ cur.next > Len(Batch(cur.owner))
    /\ cur' = NoBatch
    /\ rpc' = "panicked"
    /\ UNCHANGED <<spc, mpc, mnext, tmem, tsnap, startLog, execLog>>
    /\ FrameThr

\* A variant of RecvFinish that takes the sandbox back without restoring it.
RecvFinishNoReset ==
    /\ rpc = "calls"
    /\ cur.next > Len(Batch(cur.owner))
    /\ cur' = NoBatch
    /\ rpc' = "recv"
    /\ UNCHANGED <<spc, mpc, mnext, tmem, tsnap, startLog, execLog>>
    /\ FrameThr

\* Receiver: the batch is exhausted, sbox = ctx.finish().unwrap()
RecvFinish ==
    /\ rpc = "calls"
    /\ cur.next > Len(Batch(cur.owner))
    /\ tmem' = RestoreState(tsnap)
    /\ cur' = NoBatch
    /\ rpc' = "recv"
    /\ UNCHANGED <<spc, mpc, mnext, tsnap, startLog, execLog>>
    /\ FrameThr

\* A variant of RecvDisconnected in which main's Sender lives to the end of
\* main's scope: recv.recv() returns Err only once main has ended.
RecvDisconnectedAtScopeEnd ==
    /\ rpc = "recv"
    /\ mpc = "done"
    /\ \A i \in Senders : spc[i] = "done"
    /\ rpc' = "done"
    /\ UNCHANGED <<spc, mpc, mnext, cur, tmem, tsnap, startLog, execLog>>
    /\ FrameThr

\* Receiver: recv.recv() returns Err once every Sender is dropped (the clone
\* of each sender thread and main's own), and the loop ends.
RecvDisconnected ==
    /\ rpc = "recv"
    /\ mpc \in {"join_recv", "done", "panicked"}
    /\ \A i \in Senders : spc[i] = "done"
    /\ rpc' = "done"
    /\ UNCHANGED <<spc, mpc, mnext, cur, tmem, tsnap, startLog, execLog>>
    /\ FrameThr

\* Main: hdl.join().unwrap() for the next sender handle.
MainJoinSender ==
    /\ mpc = "join_senders"
    /\ spc[mnext] = "done"
    /\ mnext' = mnext + 1
    /\ mpc' = IF mnext + 1 \in Senders THEN "join_senders" ELSE "drop_snd"
    /\ UNCHANGED <<spc, rpc, cur, tmem, tsnap, startLog, execLog>>
    /\ FrameThr

\* Main: the sender thread joined next has panicked, join returns Err and its
\* unwrap panics; unwinding drops main's Sender.
MainJoinSenderPanics ==
    /\ mpc = "join_senders"
    /\ spc[mnext] = "panicked"
    /\ mpc' = "panicked"
    /\ UNCHANGED <<spc, rpc, mnext, cur, tmem, tsnap, startLog, execLog>>
    /\ FrameThr

\* Main: drop(snd)
MainDropSender ==
    /\ mpc = "drop_snd"
    /\ mpc' = "join_recv"
    /\ UNCHANGED <<spc, rpc, mnext, cur, tmem, tsnap, startLog, execLog>>
    /\ FrameThr

\* Main: recv_hdl.join().unwrap()
MainJoinReceiver ==
    /\ mpc = "join_recv"
    /\ rpc = "done"
    /\ mpc' = "done"
    /\ UNCHANGED <<spc, rpc, mnext, cur, tmem, tsnap, startLog, execLog>>
    /\ FrameThr

\* Main: the receiver thread has panicked, join returns Err and its unwrap
\* panics.
MainJoinReceiverPanics ==
    /\ mpc = "join_recv"
    /\ rpc = "panicked"
    /\ mpc' = "panicked"
    /\ UNCHANGED <<spc, rpc, mnext, cur, tmem, tsnap, startLog, execLog>>
    /\ FrameThr

NextThr ==
    \/ RecvBoot
    \/ RecvBootPanics
    \/ \E i \in Senders : SenderSendPanics(i)
    \/ RecvCallPanics
    \/ RecvFinishPanics
    \/ MainJoinSenderPanics
    \/ MainJoinReceiverPanics
    \/ \E i \in Senders : SenderSend(i)
    \/ \E i \in Senders : RecvBatch(i)
    \/ \E i \in Senders : SenderExit(i)
    \/ RecvNewContext
    \/ RecvCall
    \/ RecvFinish
    \/ RecvDisconnected
    \/ MainJoinSender
    \/ MainDropSender
    \/ MainJoinReceiver

\* ----------------------------------------------------------- specifications

\* The call context over one sandbox.
Init == InitCtx /\ InitMap /\ InitDisp /\ InitThr

Next == NextCtx

Spec == Init /\ [][Next]_vars

\* The call context with host memory mapped through it.
SpecMap == Init /\ [][NextMap]_vars

\* The guest registry and dispatcher.
SpecDispatch == Init /\ [][NextDisp]_vars

\* The hand-off between the sender threads and the thread owning the sandbox.
SpecThreads == Init /\ [][NextThr]_vars

\* The hand-off when the threads are scheduled: as long as some thread can
\* take a step, a step is eventually taken.
SpecThreadsFair == SpecThreads /\ WF_vars(NextThr)

\* ------------------------------------------------ properties of the context

\* C1: in one context, call k+1 executes against the guest state left by
\* call k: the k-th call the guest runs returns the memory the context
\* started with plus the running sum of the first k arguments (0,1,3,6,10
\* for arguments 0..4 on a fresh sandbox); no reset happens between two
\* calls.  A successful call hands that value to its caller; after any call,
\* failed or not, the memory is what the calls the guest ran so far left: a
\* call that fails before the guest runs changes nothing, one whose return
\* value does not convert has still run.
C1_CallsRetainState ==
    logKind = "ctx" =>
        /\ \A k \in 1..Len(log) : log[k][2] = startMem + SumArgs(log, k)
        /\ lastOp = "call" =>
              /\ mem = startMem + SumArgs(log, Len(log))
              /\ callResult.code = "Ok" =>
                    /\ Len(log) > 0
                    /\ callResult.value = log[Len(log)][2]

\* C1 witness: the arguments 0,1,2,3 issued in one context returned 0,1,3,6.
C1_Witness ==
    /\ logKind = "ctx"
    /\ lastOp = "call"
    /\ log = << <<0, 0>>, <<1, 1>>, <<2, 3>>, <<3, 6>> >>
    /\ callResult = [code |-> "Ok", value |-> 6]

\* C2: in every run of calls made directly against the Sandbox no call
\* observes a mutation made before it, by an earlier direct call or by
\* anything else: every call of the run, the first included, sees the
\* snapshot and returns snapshot + n (n when the baseline is 0), never a
\* running sum; what the last call did is all that the memory holds on top
\* of the snapshot.
C2_DirectCallsReset ==
    (logKind = "direct" /\ lastOp = "direct") =>
        /\ \A k \in 1..Len(log) : log[k][2] = snapshot + log[k][1]
        /\ snapshot = 0 => \A k \in 1..Len(log) : log[k][2] = log[k][1]
        /\ mem = snapshot + log[Len(log)][1]

\* C2 witness: on a sandbox whose memory a context and finish_no_reset left
\* at 1, away from the snapshot 0, direct calls with the arguments 2, 3, 3
\* returned 2, 3, 3.
C2_Witness ==
    /\ logKind = "direct"
    /\ lastOp = "direct"
    /\ snapshot = 0
    /\ startMem = 1
    /\ kept = 1
    /\ log = << <<2, 2>>, <<3, 3>>, <<3, 3>> >>

\* C3 as stated: the memory of the Sandbox returned by a successful finish()
\* equals the memory the sandbox had when start() was called for this context.
C3_FinishRestoresStartMemory ==
    lastOp = "finish" => mem = startMem

\* C3 amended: the memory of the Sandbox returned by a successful finish() is
\* the sandbox's last snapshot, which start() does not capture and the context
\* cannot move; it is the memory at start() when the context began at the
\* snapshot.
C3_FinishRestoresSnapshot ==
    lastOp = "finish" =>
        /\ mem = snapshot
        /\ snapshot = startSnap
        /\ (startMem = startSnap => mem = startMem)

\* C3 witness: a context that began on memory an earlier finish_no_reset left
\* away from the snapshot made calls and was finished.
C3_Witness ==
    /\ lastOp = "finish"
    /\ logKind = "ctx"
    /\ Len(log) > 0
    /\ startMem # snapshot
    /\ mem = snapshot

\* C4 as stated: the mutations kept by finish_no_reset are the new baseline:
\* a later operation that returns the sandbox to its baseline returns it to
\* the memory finish_no_reset kept: finish() leaves that memory, and a direct
\* call runs on it.
C4_KeptIsBaseline ==
    /\ lastOp = "finish" => mem = kept
    /\ (lastOp = "direct" /\ logKind = "direct") =>
          \A k \in 1..Len(log) : log[k][2] = kept + log[k][1]

\* C4 amended: finish_no_reset() returns the Sandbox with its memory as the
\* context's calls left it and with its snapshot untouched; the mutations are
\* what the next context or call observes, and they are the baseline only once
\* the owner captures a snapshot.
C4_FinishNoResetKeepsMemory ==
    /\ lastOp = "finish_no_reset" =>
          /\ handles = {"sbox"}
          /\ mem = CtxMem
          /\ kept = mem
          /\ snapshot = startSnap
    /\ lastOp = "push_state" => (snapshot = mem /\ kept = mem)

\* C4 witness: finish_no_reset returned a sandbox whose memory was mutated by
\* the context and differs from the snapshot.
C4_Witness ==
    /\ lastOp = "finish_no_reset"
    /\ Len(log) > 0
    /\ mem # startMem
    /\ mem # snapshot

\* C8: the sandbox is reachable through exactly one handle while it exists
\* (none once dropped): start, finish and finish_no_reset move the handle, and
\* every call is made through the only live handle, so two calls cannot be in
\* progress at once.
C8_SingleOwner ==
    /\ Cardinality(handles) <= 1
    /\ lastOp \in {"drop", "finish_err"} <=> handles = {}
    /\ lastOp \in {"start", "call"} => handles = {"ctx"}
    /\ lastOp \in {"finish", "finish_no_reset", "direct", "push_state"} => handles = {"sbox"}

\* C8 witness: the sandbox went caller -> context -> caller -> context and a
\* call is made through the second context.
C8_Witness ==
    /\ handles = {"ctx"}
    /\ lastOp = "call"
    /\ kept # 0

\* C12: a context dropped without finish or finish_no_reset takes the sandbox
\* with it and restores nothing: no handle is left, the guest memory is what
\* the context's calls made it, the snapshot is the one the context began
\* with, and no operation can follow.
C12_DropReleasesWithoutRestore ==
    lastOp = "drop" =>
        /\ handles = {}
        /\ mem = CtxMem
        /\ snapshot = startSnap
        /\ ~ENABLED Next

\* C12 witness: a context that made two calls and changed the guest memory
\* away from the snapshot was dropped.
C12_Witness ==
    /\ lastOp = "drop"
    /\ logKind = "ctx"
    /\ Len(log) = 2
    /\ mem # snapshot

\* C18: finish() takes the context whatever the outcome.  When restore_state
\* fails the caller gets the error and no sandbox: no handle is left and no
\* operation can follow; when it succeeds the caller holds the sandbox and
\* the context is gone.
C18_FinishConsumesContext ==
    /\ lastOp = "finish_err" =>
          /\ handles = {}
          /\ ~ENABLED Next
    /\ lastOp = "finish" => handles = {"sbox"}

\* C18 witness: the finish of a second context, which had made one call,
\* failed in restore_state.
C18_Witness ==
    /\ lastOp = "finish_err"
    /\ Len(log) = 1
    /\ kept # 0
    /\ handles = {}

\* ------------------------------------------- properties of the region mapper

\* C13: a map_region whose base or length is not a multiple of the page size
\* is refused with InvalidRegionAlignment and leaves the mapped regions as
\* they were; one whose base and length are multiples of it succeeds, and the
\* guest then reads the host bytes of the region at the requested address,
\* from its first byte to its last.
C13_AlignmentDecides ==
    lastOp = "map_region" =>
        IF lastMap.rgn.base % PageSize = 0 /\ lastMap.rgn.len % PageSize = 0
          THEN /\ lastMap.result = "Ok"
               /\ \A off \in {0, 1, lastMap.rgn.len - 1} :
                     HostByte(lastMap.rgn.host + off)
                        \in GuestRead(regions, lastMap.rgn.base + off)
          ELSE /\ lastMap.result = "InvalidRegionAlignment"
               /\ regions = lastMap.before

\* C13 witness: with one region mapped, a request whose base is one byte off
\* the page boundary was refused.
C13_Witness ==
    /\ lastOp = "map_region"
    /\ Cardinality(regions) = 1
    /\ lastMap.rgn.base = 2 * PageSize + 1
    /\ lastMap.rgn.len = PageSize
    /\ lastMap.result = "InvalidRegionAlignment"

\* What the guest can see of a set of mapped regions: where they are and what
\* they show, not their kind.
GuestView(regs) ==
    { [base |-> r.base, host |-> r.host, len |-> r.len] : r \in regs }

\* C17: what a map_region does is the same whatever the kind of the region:
\* the same request with any other kind, made on the same mapped regions, has
\* the same result and leaves the guest the same view; and no map_region
\* gives a page a guest page-table entry.
C17_KindIndependent ==
    /\ lastOp = "map_region" =>
          \A k \in RegionKinds :
             LET other == SandboxMapRegion(lastMap.before,
                                           [lastMap.rgn EXCEPT !.region_type = k])
             IN  /\ other.result = lastMap.result
                 /\ GuestView(other.regions) = GuestView(regions)
    /\ ptes = SandboxPages

\* C17 witness: a Heap region and a Code region are mapped, the last of them
\* just now, and the page-table entries are those of the sandbox's own pages.
C17_Witness ==
    /\ lastOp = "map_region"
    /\ lastMap.result = "Ok"
    /\ \E r1, r2 \in regions :
          /\ r1.region_type = "Heap"
          /\ r2.region_type = "Code"
          /\ r1.base # r2.base
    /\ ptes = SandboxPages

\* --------------------------------------------- properties of the dispatcher

\* The kinds of the steps the last dispatch took, in order.
EventKinds == [i \in DOMAIN last.out.events |-> last.out.events[i][1]]

\* Whether the last dispatch took a step of kind k.
Did(k) == \E i \in DOMAIN EventKinds : EventKinds[i] = k

\* The definition the registry lookup of the last dispatch found.
Registered == last.def

\* The registry as far as the lookup of the last dispatch saw it.
RegistryAtLookup == IF last.def = NoDef THEN {} ELSE {last.def}

\* C5: a call whose name is registered and whose parameter types differ from
\* the registered signature (in count, order or type) fails with
\* ParameterTypeMismatch and neither the function nor the fallback is invoked;
\* in every dispatch an invocation of a registered function comes after the
\* type verification.
C5_MismatchNeverInvokes ==
    /\ (last # NoDispatch /\ Registered # NoDef
          /\ FunctionCallParameterTypes(last.call) # Registered.parameter_types) =>
            /\ last.out.result = Err("ParameterTypeMismatch", <<>>)
            /\ ~Did("invoke")
            /\ ~Did("fallback")
    /\ \A i \in DOMAIN EventKinds :
          EventKinds[i] = "invoke" => \E j \in 1..(i - 1) : EventKinds[j] = "verify"

\* C5 witness: a function registered as (Int, String) was called with
\* (String, Int) and the dispatch failed with ParameterTypeMismatch.
C5_Witness ==
    /\ last # NoDispatch
    /\ Registered # NoDef
    /\ Registered.parameter_types = <<"Int", "String">>
    /\ FunctionCallParameterTypes(last.call) = <<"String", "Int">>
    /\ last.out.result.code = "ParameterTypeMismatch"

\* C6: when the name is not registered and the fallback, handed the call,
\* returns null, the result is a GuestFunctionNotFound error whose message is
\* exactly the function name of the call; no other path yields that error.
C6_NotFoundCarriesName ==
    /\ (last # NoDispatch /\ Registered = NoDef /\ Did("fallback") /\ last.fb = "null") =>
          last.out.result = Err("GuestFunctionNotFound", last.call.function_name)
    /\ last.out.result.code = "GuestFunctionNotFound" =>
          (Registered = NoDef /\ last.out.result.payload = last.call.function_name)

\* C6 witness: with a non-empty registry, a call to the unregistered name
\* g<U+FFFD> met a fallback returning null and failed carrying that name.
C6_Witness ==
    /\ registry # {}
    /\ last.fb = "null"
    /\ last.call.function_name = <<"g", "uFFFD">>
    /\ last.out.result = Err("GuestFunctionNotFound", <<"g", "uFFFD">>)

\* C7 as stated: a dispatch that fails with CallEnvelopeDecodeError made no
\* registry lookup and invoked neither a registered function nor the fallback.
C7_DecodeErrorMeansNoLookup ==
    last.out.result.code = "CallEnvelopeDecodeError" =>
        (~Did("lookup") /\ ~Did("invoke") /\ ~Did("fallback"))

\* C7 amended: a failure while converting the call envelope makes the
\* dispatch fail with CallEnvelopeDecodeError, and neither a registered
\* function nor the fallback is invoked; the registry lookup (and, for a
\* registered name, the type verification) has taken place before the
\* conversion.
C7_DecodeErrorInvokesNothing ==
    /\ Did("convert_err") <=> last.out.result.code = "CallEnvelopeDecodeError"
    /\ Did("convert_err") =>
          /\ ~Did("invoke")
          /\ ~Did("fallback")
          /\ EventKinds[1] = "lookup"
          /\ EventKinds[Len(EventKinds)] = "convert_err"
          /\ (Registered # NoDef => Did("verify"))

\* C7 witness: a call to a registered function whose types match and whose
\* string parameter holds a zero byte failed with CallEnvelopeDecodeError.
C7_Witness ==
    /\ Registered # NoDef
    /\ last.call.parameters = << <<"Int", "StringNul">> >>
    /\ last.out.result.code = "CallEnvelopeDecodeError"

\* C9: registering never fails and overwrites: for every name, the registry
\* holds at most one entry, lookup returns the definition of the last
\* registration made under that name, and a name once registered stays
\* registered.
C9_LastRegistrationWins ==
    \A n \in RegNames :
        /\ Cardinality({ d \in registry : d.function_name = n }) <= 1
        /\ Get(registry, n) = lastReg[n]

\* C9 witness: g<U+FFFD> was registered, then registered again with another
\* definition, and lookup returns the later one.
C9_Witness ==
    /\ reRegistered[<<"g", "uFFFD">>]
    /\ Get(registry, <<"g", "uFFFD">>) = lastReg[<<"g", "uFFFD">>]
    /\ Get(registry, <<"f">>) # NoDef

\* Whether the last dispatch met one of the failures of guest_dispatch_function:
\* a type mismatch or a failed conversion under a registered name, a failed
\* conversion or a fallback returning null under an unregistered one.
DispatchFails ==
    /\ last # NoDispatch
    /\ IF Registered # NoDef
         THEN \/ FunctionCallParameterTypes(last.call) # Registered.parameter_types
              \/ ~Convertible(last.call)
         ELSE \/ ~Convertible(last.call)
              \/ last.fb = "null"

\* C11 as stated: a failed outbound host call made through
\* hl_call_host_function is returned to its caller as an error result.
C11_HostFailureReturned ==
    hostCall.host = "Err" => hostCall.returned = "Err"

\* C11: no failure is dropped.  Every failure of guest_dispatch_function is
\* the typed error result of that dispatch, and a dispatch that met no failure
\* returns Ok.  A failed outbound host call made through hl_call_host_function
\* returns nothing to its caller: it panics with "Failed to call host
\* function", the dispatch during which it was made never returns a result
\* and no entry point runs again; a host call that succeeded returns to the
\* caller without a value.
C11_FailuresSurface ==
    /\ last # NoDispatch => (DispatchFails <=> last.out.result.kind = "Err")
    /\ last.out.result.kind = "Err" =>
          last.out.result.code \in
             {"ParameterTypeMismatch", "CallEnvelopeDecodeError", "GuestFunctionNotFound"}
    /\ hostCall.host = "Err" =>
          /\ hostCall.panic = <<"Failed to call host function">>
          /\ hostCall.returned = "none"
          /\ Running => last = NoDispatch
          /\ ~ENABLED NextDisp
    /\ hostCall.host = "Ok" =>
          /\ hostCall.panic = <<>>
          /\ hostCall.returned = "unit"

\* C11 witness: the registered function f was running when its host call
\* k(Int) failed and the guest panicked.
C11_Witness ==
    /\ Running
    /\ run.call.function_name = <<"f">>
    /\ run.def # NoDef
    /\ run.nested = <<"host_call">>
    /\ hostCall.call.function_name = <<"k">>
    /\ hostCall.call.parameters = << <<"Int">> >>
    /\ hostCall.host = "Err"
    /\ GuestPanicked

\* The positions at which the last dispatch invoked a registered function.
InvokeEvents == { i \in DOMAIN EventKinds : EventKinds[i] = "invoke" }

\* Whether the last dispatch was of a registered name with exactly the
\* registered parameter types.
RegisteredAndMatching ==
    /\ last # NoDispatch
    /\ Registered # NoDef
    /\ FunctionCallParameterTypes(last.call) = Registered.parameter_types

\* C14 as stated: a call whose name is registered and whose parameter types
\* match exactly has the registered function invoked exactly once, the
\* fallback not at all, and the function's bytes as its result.
C14_MatchInvokesOnce ==
    RegisteredAndMatching =>
        /\ Cardinality(InvokeEvents) = 1
        /\ ~Did("fallback")
        /\ last.out.result =
              Ok(GuestFunc(Registered.function_pointer, FromFunctionCall(last.call)))

\* C14: a call whose name is registered, whose parameter types match exactly
\* and whose conversion succeeds has the registered function invoked exactly
\* once, with the converted call, the fallback not at all, and the bytes the
\* function returned as its result; if the conversion fails the function is
\* not invoked and the dispatch fails with the decode error.
C14_MatchInvokesOnceIfConverted ==
    /\ (RegisteredAndMatching /\ Convertible(last.call)) =>
          /\ Cardinality(InvokeEvents) = 1
          /\ \A i \in InvokeEvents :
                last.out.events[i] = <<"invoke", Registered.function_pointer>>
          /\ ~Did("fallback")
          /\ last.out.result =
                Ok(GuestFunc(Registered.function_pointer, FromFunctionCall(last.call)))
    /\ (RegisteredAndMatching /\ ~Convertible(last.call)) =>
          /\ InvokeEvents = {}
          /\ ~Did("fallback")
          /\ last.out.result.code = "CallEnvelopeDecodeError"

\* C14 witness: g<U+FFFD>, registered as (Int, String) at address 2, was
\* called with an Int and a String and its bytes came back.
C14_Witness ==
    /\ last.call.function_name = <<"g", "uFFFD">>
    /\ Registered # NoDef
    /\ Registered.function_pointer = 2
    /\ last.call.parameters = << <<"Int", "String">> >>
    /\ InvokeEvents # {}
    /\ last.out.result.kind = "Ok"

\* C15 as stated: the fallback is invoked if and only if the name of the call
\* is absent from the registry when it is dispatched.
C15_FallbackIffAbsent ==
    last # NoDispatch => (Did("fallback") <=> Registered = NoDef)

\* C15: the fallback is invoked if and only if the name of the call is absent
\* from the registry when it is dispatched and the conversion of the call
\* succeeds; a registered name whose parameter types do not match fails
\* without reaching the fallback; and what the fallback returns for a name it
\* resolves is the result of the dispatch, unchanged.
C15_FallbackIffAbsentAndConverted ==
    /\ last # NoDispatch =>
          (Did("fallback") <=> (Registered = NoDef /\ Convertible(last.call)))
    /\ (last # NoDispatch /\ Registered # NoDef
          /\ FunctionCallParameterTypes(last.call) # Registered.parameter_types) =>
            /\ last.out.result.kind = "Err"
            /\ ~Did("fallback")
    /\ (Did("fallback") /\ last.fb = "resolves") =>
          last.out.result = Ok(FallbackResult(FromFunctionCall(last.call)))

\* C15 witness: the unregistered name f was dispatched with a String and the
\* fallback resolved it, registering f while it ran: f is in the registry
\* now and was not when the call was dispatched.
C15_Witness ==
    /\ Get(registry, <<"f">>) # NoDef
    /\ last.nested = <<"register">>
    /\ last.call.function_name = <<"f">>
    /\ last.call.parameters = << <<"String">> >>
    /\ Registered = NoDef
    /\ last.fb = "resolves"
    /\ Did("fallback")
    /\ last.out.result.kind = "Ok"

\* C19: in the type verification a call without a parameter list is a call
\* with an empty one: its dispatch has the outcome the same call with an empty
\* list has, it matches a registered function that takes no parameters, which
\* is invoked, and it mismatches a registered function that takes one or more.
C19_AbsentParametersAreEmpty ==
    (last # NoDispatch /\ last.call.parameters = <<>>) =>
        /\ last.out = GuestDispatchFunction(
                         RegistryAtLookup, [last.call EXCEPT !.parameters = << <<>> >>],
                         last.fb)
        /\ (Registered # NoDef /\ Registered.parameter_types = <<>>) =>
              /\ Did("invoke")
              /\ last.out.result.kind = "Ok"
        /\ (Registered # NoDef /\ Len(Registered.parameter_types) >= 1) =>
              /\ ~Did("invoke")
              /\ last.out.result.code = "ParameterTypeMismatch"

\* C19 witness: f, registered without parameters, was called without a
\* parameter list and was invoked.
C19_Witness ==
    /\ last.call.function_name = <<"f">>
    /\ last.call.parameters = <<>>
    /\ Registered # NoDef
    /\ Registered.parameter_types = <<>>
    /\ Did("invoke")

\* ----------------------------------------------- properties of the hand-off

\* C10: under every interleaving of the senders each batch runs in a context
\* of its own: the calls of a batch are executed in order with no call of
\* another batch between them, one context is opened per batch taken, and
\* every context starts from the same baseline guest memory whatever batches
\* ran before it.
C10_BatchesIsolated ==
    /\ \A k \in 1..Len(execLog) :
          \/ execLog[k][2] = 1
          \/ /\ k > 1
             /\ execLog[k - 1][1] = execLog[k][1]
             /\ execLog[k - 1][2] = execLog[k][2] - 1
    /\ \A k, l \in 1..Len(startLog) : startLog[k][1] = startLog[l][1] => k = l
    /\ \A k \in 1..Len(execLog) :
          /\ \E l \in 1..Len(startLog) : startLog[l][1] = execLog[k][1]
          /\ execLog[k][3] = Batch(execLog[k][1])[execLog[k][2]].arg
    /\ \A k \in 1..Len(startLog) : startLog[k][2] = tsnap
    /\ rpc = "recv" => tmem = tsnap

\* C10 witness: every sender's batch has been executed in full, the last
\* sender's batch first, and all threads have ended.
C10_Witness ==
    /\ mpc = "done"
    /\ Len(startLog) = NumSenders
    /\ Len(execLog) = 2 * NumSenders
    /\ startLog[1][1] = NumSenders - 1

\* Whether every call of sender i's batch has been executed and the context
\* it ran in has been finished.
BatchDone(i) ==
    /\ \A j \in 1..Len(Batch(i)) :
          \E k \in DOMAIN execLog : execLog[k] = <<i, j, Batch(i)[j].arg>>
    /\ cur.owner # i

\* Whether every thread has ended, by returning or by panicking.
AllEnded ==
    /\ mpc \in {"done", "panicked"}
    /\ rpc \in {"done", "panicked"}
    /\ \A i \in Senders : spc[i] \in {"done", "panicked"}

\* C16 as first stated: when the threads are scheduled, every batch a sender
\* submits is eventually executed in full and its context finished, every
\* sender thread returns, once main has dropped the last Sender the receiver's
\* loop ends, and all threads return with every batch executed.
C16_HandOffCompletes ==
    /\ \A i \in Senders : (spc[i] = "sending") ~> BatchDone(i)
    /\ \A i \in Senders : <>(spc[i] = "done")
    /\ (mpc = "join_recv") ~> (rpc = "done")
    /\ <>[](mpc = "done" /\ rpc = "done" /\ \A i \in Senders : BatchDone(i))

\* C16: when the threads are scheduled, no run stops with a thread blocked:
\* every submitted batch is eventually executed in full and its context
\* finished unless the receiver panics, every sender thread ends, once main
\* waits for the receiver the receiver ends, and all threads end for good.
\* The receiver's loop returns only after every sender has returned with its
\* batch executed and finished, and as long as the receiver does not panic
\* the run completes as first stated.
C16_HandOffEndsOrCompletes ==
    /\ \A i \in Senders :
          (spc[i] = "sending") ~> (BatchDone(i) \/ rpc = "panicked")
    /\ \A i \in Senders : <>(spc[i] \in {"done", "panicked"})
    /\ (mpc = "join_recv") ~> (rpc \in {"done", "panicked"})
    /\ <>[]AllEnded
    /\ [](rpc = "done" =>
            /\ mpc \in {"join_recv", "done"}
            /\ \A i \in Senders : spc[i] = "done" /\ BatchDone(i))
    /\ [](rpc # "panicked") => C16_HandOffCompletes

\* C16 witness: the batch of sender 1 was executed and finished, then the
\* receiver panicked in the batch of sender 2; sender 0, still blocked in
\* send, panicked with none of its calls executed, and main panicked joining
\* it. Every thread has ended.
C16_Witness ==
    /\ AllEnded
    /\ rpc = "panicked" /\ mpc = "panicked"
    /\ spc[1] = "done" /\ BatchDone(1)
    /\ spc[2] = "done" /\ cur.owner = 2 /\ ~BatchDone(2)
    /\ spc[0] = "panicked"
    /\ \A k \in DOMAIN execLog : execLog[k][1] # 0

====
